---- MODULE Spec2Model ----
(***************************************************************************)
(* Serial device discovery of the Sorensen DCS GUI                         *)
(* (src/sorensen_gui/port_scanner.py): the port enumerator                 *)
(* get_likely_ports, the device prober probe_dcs_port and the scan         *)
(* orchestrator scan_for_dcs_devices.                                      *)
(* Further down: DCSController (src/sorensen_gui/dcs_controller.py) and    *)
(* CSVLogger (src/sorensen_gui/logging_utils.py), each with a              *)
(* specification of its own.                                               *)
(*                                                                         *)
(* A str (device path, platform name) is a sequence of one-character       *)
(* strings; a bytes object is a sequence of byte values 0..255; the        *)
(* decoded response is a sequence of code points.  Durations are in        *)
(* milliseconds.                                                           *)
(***************************************************************************)
EXTENDS Integers, Sequences, FiniteSets, TLC

VARIABLES
    system,         \* platform.system() as seen by the running scan
    all_ports,      \* list_ports.comports(): the device path of every entry
    likely_ports,   \* scan_for_dcs_devices: the candidate list
    idx,            \* scan_for_dcs_devices: position of the for loop (1-based)
    found_devices,  \* scan_for_dcs_devices: the (port, identification) pairs
    scan_result,    \* the value scan_for_dcs_devices returned (None before)
    probe_calls,    \* the port argument of every probe_dcs_port call, in order
    probe_results,  \* the value every finished probe_dcs_port call returned
    pc,             \* position of the program
    caller,         \* who called probe_dcs_port: "scan" or "direct"
    port,           \* probe_dcs_port: argument port
    baudrate,       \* probe_dcs_port: argument baudrate
    timeout,        \* probe_dcs_port: argument timeout
    ser,            \* probe_dcs_port: the serial.Serial object
    fault,          \* the transport call that fails on the probed port, if any
    wire,           \* the bytes the device on the probed port sends, if any
    rx,             \* the bytes ser.readline() returned
    response,       \* probe_dcs_port: local response (decoded, stripped)
    exc,            \* the exception a transport call of this probe raised, if any
    result,         \* the value probe_dcs_port returned
    events,         \* transport calls made by the current probe, in order
    handle,         \* identity of the Serial object of the current probe
    open_handles,   \* identities of the Serial objects whose port is open
    earlier_scans,  \* what the finished scans before the latest one returned
    power_supply,   \* DCSController: the sorensenPower driver held (or None)
    _connected,     \* DCSController: the connection flag
    drivers,        \* sorensenPower objects constructed so far
    driver_calls,   \* every method call made on a driver, in order
    ctl_log,        \* every finished call of a DCSController method, in order
    file,           \* CSVLogger: the file object held (or None)
    writer,         \* CSVLogger: the file object the csv writer held wraps
    files,          \* every file object the logger opened, in order
    disk,           \* the rows of the file at filepath, as a crash leaves it
    now,            \* the clock datetime.now() reads, in seconds
    csv_log,        \* every finished call of a CSVLogger method, in order
    window,         \* SorensenGUI: its widgets and its timer (or NoWindow)
    gui_power_supply, \* SorensenGUI: self.power_supply, the driver held
    gui_stack,      \* SorensenGUI: the handlers waiting inside processEvents
                    \* or running a scan, innermost last
    gui_drivers,    \* every sorensenPower object the GUI constructed
    gui_events      \* number of events delivered to the GUI so far

vars == <<system, all_ports, likely_ports, idx, found_devices, scan_result,
          probe_calls, probe_results, pc, caller, port, baudrate, timeout, ser, fault, wire,
          rx, response, exc, result, events, handle, open_handles,
          earlier_scans, power_supply, _connected, drivers, driver_calls,
          ctl_log, file, writer, files, disk, now, csv_log, window,
          gui_power_supply, gui_stack, gui_drivers, gui_events>>

scanVars == <<system, all_ports, likely_ports, idx, found_devices,
              scan_result, probe_calls>>

\* what the statements of probe_dcs_port before its return leave alone
callerVars == <<scanVars, probe_results, caller>>

probeVars == <<port, baudrate, timeout, ser, fault, wire, rx, response, exc,
               result, events, handle>>

controllerVars == <<power_supply, _connected, drivers, driver_calls, ctl_log>>

loggerVars == <<file, writer, files, disk, now, csv_log>>

guiVars == <<window, gui_power_supply, gui_stack, gui_drivers, gui_events>>

\* what one scan or one probe leaves alone
beyondScan == <<earlier_scans, controllerVars, loggerVars, guiVars>>

\* what a DCSController method leaves alone
beyondController == <<scanVars, probe_results, caller, pc, probeVars,
                      open_handles, earlier_scans, loggerVars, guiVars>>

\* what a CSVLogger method leaves alone
beyondLogger == <<scanVars, probe_results, caller, pc, probeVars,
                  open_handles, earlier_scans, controllerVars, guiVars>>

(***************************************************************************)
(* Bounds of the model.                                                    *)
(***************************************************************************)
\* longest operating-system port enumeration
MaxPorts == 3
\* longest byte string enumerated exhaustively as a device response
MaxLen == 3

(***************************************************************************)
(* Python values.                                                          *)
(***************************************************************************)
\* an Optional value is None or Some(v)
None == <<>>
Some(v) == <<v>>

\* the value of a Some
the(o) == o[1]

\* no exception in flight, no failing transport call
NoExc == "none"

\* the least element of a non-empty set of integers
Min(S) == CHOOSE k \in S : \A m \in S : k <= m

\* the greatest element of a non-empty set of integers
Max(S) == CHOOSE k \in S : \A m \in S : k >= m

\* the positions of the str (or bytes) s where sub occurs
Occurrences(s, sub) ==
    {k \in 1..(Len(s) - Len(sub) + 1) : SubSeq(s, k, k + Len(sub) - 1) = sub}

\* str.find, counting from 1: the first position where sub occurs, 0 if none
find(s, sub) ==
    IF Occurrences(s, sub) = {} THEN 0 ELSE Min(Occurrences(s, sub))

\* str.startswith
startswith(s, prefix) ==
    /\ Len(s) >= Len(prefix)
    /\ SubSeq(s, 1, Len(prefix)) = prefix

\* the operator `in' of two str values
contains(s, sub) == Occurrences(s, sub) # {}

(***************************************************************************)
(* Port Enumerator: get_likely_ports.                                      *)
(***************************************************************************)
Windows == <<"W", "i", "n", "d", "o", "w", "s">>
Linux == <<"L", "i", "n", "u", "x">>
Darwin == <<"D", "a", "r", "w", "i", "n">>
\* a platform none of the branches names
FreeBSD == <<"F", "r", "e", "e", "B", "S", "D">>

Systems == {Windows, Linux, Darwin, FreeBSD}

COM == <<"C", "O", "M">>
dev_ttyUSB == <<"/", "d", "e", "v", "/", "t", "t", "y", "U", "S", "B">>
dev_ttyACM == <<"/", "d", "e", "v", "/", "t", "t", "y", "A", "C", "M">>
dev_ttyS == <<"/", "d", "e", "v", "/", "t", "t", "y", "S">>
dev_tty_usbserial == <<"/", "d", "e", "v", "/", "t", "t", "y", ".",
                       "u", "s", "b", "s", "e", "r", "i", "a", "l">>
dev_cu_usbserial == <<"/", "d", "e", "v", "/", "c", "u", ".",
                      "u", "s", "b", "s", "e", "r", "i", "a", "l">>
dev_tty_usbmodem == <<"/", "d", "e", "v", "/", "t", "t", "y", ".",
                      "u", "s", "b", "m", "o", "d", "e", "m">>
dev_cu_usbmodem == <<"/", "d", "e", "v", "/", "c", "u", ".",
                     "u", "s", "b", "m", "o", "d", "e", "m">>

\* the filter of the Windows branch
WindowsRule(device) == startswith(device, COM)

\* the filter of the Linux branch without its '/dev/ttyS' alternative
LinuxRule_without_ttyS(device) ==
    \/ startswith(device, dev_ttyUSB)
    \/ startswith(device, dev_ttyACM)

\* the filter of the Linux branch
LinuxRule(device) ==
    \/ startswith(device, dev_ttyUSB)
    \/ startswith(device, dev_ttyACM)
    \/ startswith(device, dev_ttyS)

\* the filter of the Darwin branch
DarwinRule(device) ==
    \/ contains(device, dev_tty_usbserial)
    \/ contains(device, dev_cu_usbserial)
    \/ contains(device, dev_tty_usbmodem)
    \/ contains(device, dev_cu_usbmodem)

\* get_likely_ports() when platform.system() is sys and list_ports.comports()
\* lists the devices ports
get_likely_ports(sys, ports) ==
    IF sys = Windows THEN SelectSeq(ports, WindowsRule)
    ELSE IF sys = Linux THEN SelectSeq(ports, LinuxRule)
    ELSE IF sys = Darwin THEN SelectSeq(ports, DarwinRule)
    ELSE ports

\* device paths the operating system may list
COM3 == <<"C", "O", "M", "3">>
COM4 == <<"C", "O", "M", "4">>
ttyUSB0 == <<"/", "d", "e", "v", "/", "t", "t", "y", "U", "S", "B", "0">>
cu_usbmodem1 == <<"/", "d", "e", "v", "/", "c", "u", ".",
                  "u", "s", "b", "m", "o", "d", "e", "m", "1">>

DevicePaths == {COM3, COM4, ttyUSB0, cu_usbmodem1}

\* every list of at most n elements of S
SeqsUpTo(S, n) == UNION {[1..k -> S] : k \in 0..n}

\* what list_ports.comports() may return
Enumerations == SeqsUpTo(DevicePaths, MaxPorts)

\* more device paths: serial devices of the three platforms and devices the
\* platform rules pass over
com3 == <<"c", "o", "m", "3">>
LPT1 == <<"L", "P", "T", "1">>
ttyS0 == <<"/", "d", "e", "v", "/", "t", "t", "y", "S", "0">>
ttyACM0 == <<"/", "d", "e", "v", "/", "t", "t", "y", "A", "C", "M", "0">>
ttyAMA0 == <<"/", "d", "e", "v", "/", "t", "t", "y", "A", "M", "A", "0">>
tty_usbserial1 == <<"/", "d", "e", "v", "/", "t", "t", "y", ".", "u", "s",
    "b", "s", "e", "r", "i", "a", "l", "1">>
cu_usbserial1 == <<"/", "d", "e", "v", "/", "c", "u", ".", "u", "s", "b",
    "s", "e", "r", "i", "a", "l", "1">>
tty_usbmodem1 == <<"/", "d", "e", "v", "/", "t", "t", "y", ".", "u", "s",
    "b", "m", "o", "d", "e", "m", "1">>
cu_Bluetooth == <<"/", "d", "e", "v", "/", "c", "u", ".", "B", "l", "u",
    "e", "t", "o", "o", "t", "h">>

ListedPaths ==
    DevicePaths \cup {com3, LPT1, ttyS0, ttyACM0, ttyAMA0, tty_usbserial1,
                      cu_usbserial1, tty_usbmodem1, cu_Bluetooth}

\* what list_ports.comports() may return to a call of get_likely_ports()
Listings == SeqsUpTo(ListedPaths, MaxPorts)

(***************************************************************************)
(* Device Prober: the pure steps of probe_dcs_port.                        *)
(***************************************************************************)
\* the command with a newline in place of the carriage return
idn_command_newline == <<42, 73, 68, 78, 63, 10>>

\* "*IDN?\r".encode()
idn_command == <<42, 73, 68, 78, 63, 13>>

\* the markers 'SORENSEN' and 'DCS' of the classification
SORENSEN == <<83, 79, 82, 69, 78, 83, 69, 78>>
DCS == <<68, 67, 83>>

\* the line terminator b"\n" of readline
NEWLINE == <<10>>

\* ser.readline() on a device that sends the bytes w and then stays silent:
\* the bytes up to and including the first newline, or, when the timeout
\* expires first, the bytes received so far
readline(w) ==
    IF contains(w, NEWLINE) THEN SubSeq(w, 1, find(w, NEWLINE)) ELSE w

\* the byte at position i of bs starts a two-byte sequence: a lead byte and
\* a continuation byte
two_bytes_at(bs, i) ==
    /\ bs[i] \in 194..223
    /\ i + 1 <= Len(bs)
    /\ bs[i + 1] \in 128..191

\* what the decoder makes of the byte at position i of bs: the code point of
\* the one- or two-byte sequence that starts there, or nothing for the
\* second byte of a sequence and, with errors='ignore', for a byte that
\* starts no valid sequence
decoded_at(bs, i) ==
    IF bs[i] < 128 THEN <<bs[i]>>
    ELSE IF two_bytes_at(bs, i)
         THEN <<(bs[i] - 192) * 64 + (bs[i + 1] - 128)>>
    ELSE <<>>

is_code_point(c) == c # <<>>

\* the code points the decoder makes of the bytes of bs, in order
code_points(bs) ==
    SelectSeq([i \in 1..Len(bs) |-> decoded_at(bs, i)], is_code_point)

\* bytes.decode(encoding='UTF-8', errors='ignore') on one- and two-byte
\* sequences
decode(bs) == [i \in 1..Len(code_points(bs)) |-> the(code_points(bs)[i])]

\* the code points str.strip() removes (those below 256)
Whitespace == (9..13) \cup (28..32) \cup {133, 160}

\* the positions of s that hold no whitespace
Kept(s) == {i \in 1..Len(s) : s[i] \notin Whitespace}

\* str.strip(): from the first to the last position that holds no whitespace
strip(s) == IF Kept(s) = {} THEN <<>> ELSE SubSeq(s, Min(Kept(s)), Max(Kept(s)))

\* str.upper() of one code point: ASCII and Latin-1 letters
upper_char(c) ==
    IF c \in 97..122 THEN c - 32
    ELSE IF c \in 224..254 /\ c # 247 THEN c - 32
    ELSE c

\* str.upper()
upper(s) == [i \in 1..Len(s) |-> upper_char(s[i])]

\* the classification comparing the markers case-sensitively
classify_case_sensitive(resp) ==
    IF resp # <<>> /\ (contains(resp, SORENSEN) \/ contains(resp, DCS))
    THEN Some(resp)
    ELSE None

\* the value the try block returns for the decoded, stripped response resp
classify(resp) ==
    IF resp # <<>> /\ (contains(upper(resp), SORENSEN)
                       \/ contains(upper(resp), DCS))
    THEN Some(resp)
    ELSE None

(***************************************************************************)
(* The transport and the devices behind it.                                *)
(***************************************************************************)
\* resources.py: TIMEOUT = 0.5 and SCAN_TIMEOUT = 0.25 seconds
TIMEOUT == 500
SCAN_TIMEOUT == 250

\* a probe with no read timeout
probe_blocking_timeout == None

\* the default of probe_dcs_port's parameter timeout, 0.5 seconds; a timeout
\* of None makes a read block until the data is there
probe_default_timeout == Some(500)

\* the default of the parameter baudrate
default_baudrate == 19200

\* the exceptions a transport call raises: the two the first handler names,
\* and one standing for every other subclass of Exception
Raised == {"SerialException", "OSError", "RuntimeError"}

\* except (serial.SerialException, OSError, UnicodeDecodeError)
first_handler(e) == e \in {"SerialException", "OSError", "UnicodeDecodeError"}

\* probe_dcs_port without its second handler
second_handler_absent(e) == FALSE

\* except Exception
second_handler(e) == e \in Raised \cup {"UnicodeDecodeError"}

\* the handlers of probe_dcs_port catch the exception e
caught(e) == first_handler(e) \/ second_handler(e)

\* the transport calls of a probe that may fail
Calls == {"open", "write", "readline"}

\* a transport call as the events record it
Event(call, data) == [call |-> call, data |-> data]

\* the Serial object with the handshake lines left as they default
configured_without_handshake(p, b, t) ==
    [port |-> p, baudrate |-> b, timeout |-> t, rts |-> FALSE, dtr |-> FALSE,
     is_open |-> FALSE]

\* the Serial object after lines 59-64
configured(p, b, t) ==
    [port |-> p, baudrate |-> b, timeout |-> t, rts |-> TRUE, dtr |-> TRUE,
     is_open |-> FALSE]

\* the Serial object before serial.Serial() made it
NoSerial ==
    [port |-> <<>>, baudrate |-> 0, timeout |-> None, rts |-> FALSE,
     dtr |-> FALSE, is_open |-> FALSE]

\* b"SORENSEN,DCS60-18E,123456,1.0\r\n"
IdnLine ==
    <<83, 79, 82, 69, 78, 83, 69, 78, 44, 68, 67, 83, 54, 48, 45, 49, 56, 69,
      44, 49, 50, 51, 52, 53, 54, 44, 49, 46, 48, 13, 10>>

\* b"Some Other Device\r\n"
OtherLine ==
    <<83, 111, 109, 101, 32, 79, 116, 104, 101, 114, 32, 68, 101, 118, 105,
      99, 101, 13, 10>>

\* what the device behind a scanned port sends: nothing, an identification,
\* the line of another instrument
ScanWires == {<<>>, IdnLine, OtherLine}

(***************************************************************************)
(* The state before any call.                                              *)
(***************************************************************************)
Init ==
    /\ system = <<>>
    /\ all_ports = <<>>
    /\ likely_ports = <<>>
    /\ idx = 0
    /\ found_devices = <<>>
    /\ scan_result = None
    /\ probe_calls = <<>>
    /\ probe_results = <<>>
    /\ pc = "idle"
    /\ caller = "nobody"
    /\ port = <<>>
    /\ baudrate = 0
    /\ timeout = None
    /\ ser = NoSerial
    /\ fault = NoExc
    /\ wire = <<>>
    /\ rx = <<>>
    /\ response = <<>>
    /\ exc = NoExc
    /\ result = None
    /\ events = <<>>
    /\ handle = 0
    /\ open_handles = {}
    /\ earlier_scans = <<>>
    /\ power_supply = None
    /\ _connected = FALSE
    /\ drivers = 0
    /\ driver_calls = <<>>
    /\ ctl_log = <<>>
    /\ file = None
    /\ writer = None
    /\ files = <<>>
    /\ disk = <<>>
    /\ now = 0
    /\ csv_log = <<>>
    /\ window = <<>>
    /\ gui_power_supply = None
    /\ gui_stack = <<>>
    /\ gui_drivers = <<>>
    /\ gui_events = 0

(***************************************************************************)
(* Scan Orchestrator: scan_for_dcs_devices.                                *)
(***************************************************************************)
\* the list of an earlier scan kept instead of a new one
kept_list(found) == found

\* line 103: found_devices = [], whatever the name was bound to before
new_list(found) == <<>>

\* lines 102-103: likely_ports = get_likely_ports(); found_devices = []
\* on one of the platforms systems, with one of the port lists enumerations
scan_enter(systems, enumerations) ==
    /\ \E sys \in systems, ports \in enumerations :
         /\ system' = sys
         /\ all_ports' = ports
         /\ likely_ports' = get_likely_ports(sys, ports)
    /\ found_devices' = new_list(found_devices)
    /\ idx' = 1
    /\ caller' = "scan"
    /\ pc' = "scan_loop"

\* the first call scan_for_dcs_devices() of the process
scan_call(systems, enumerations) ==
    /\ pc = "idle"
    /\ scan_enter(systems, enumerations)
    /\ UNCHANGED <<scan_result, probe_calls, probe_results, probeVars,
                   open_handles>>
    /\ UNCHANGED beyondScan

\* a call scan_for_dcs_devices()
scan_for_dcs_devices == scan_call(Systems, Enumerations)

\* most scans of one process
MaxScans == 2

\* the machines of the repeated scans: a platform with a rule and one
\* without, and a device that is plugged in, moved or removed between scans
RescanSystems == {Windows, FreeBSD}
RescanEnumerations == {<<>>, <<COM3>>, <<COM3, ttyUSB0>>, <<ttyUSB0, COM3>>}

\* a later call scan_for_dcs_devices(): the frame of the finished scan and
\* of its probes is gone, its result stays with the caller, and the Serial
\* objects it left open stay open
scan_rerun ==
    /\ pc = "done"
    /\ caller = "scan"
    /\ earlier_scans' = Append(earlier_scans, the(scan_result))
    /\ scan_enter(RescanSystems, RescanEnumerations)
    /\ scan_result' = None
    /\ probe_calls' = <<>>
    /\ probe_results' = <<>>
    /\ port' = <<>>
    /\ baudrate' = 0
    /\ timeout' = None
    /\ ser' = NoSerial
    /\ fault' = NoExc
    /\ wire' = <<>>
    /\ rx' = <<>>
    /\ response' = <<>>
    /\ exc' = NoExc
    /\ result' = None
    /\ events' = <<>>
    /\ UNCHANGED <<handle, open_handles>>

\* a later call scan_for_dcs_devices() of a process that only scans
scan_again ==
    /\ Len(earlier_scans) + 1 < MaxScans
    /\ scan_rerun
    /\ UNCHANGED <<controllerVars, loggerVars, guiVars>>

\* a call get_likely_ports() by the application
likely_ports_call ==
    /\ pc = "idle"
    /\ \E sys \in Systems, ports \in Listings :
         /\ system' = sys
         /\ all_ports' = ports
         /\ likely_ports' = get_likely_ports(sys, ports)
    /\ caller' = "enumerate"
    /\ pc' = "done"
    /\ UNCHANGED <<idx, found_devices, scan_result, probe_calls,
                   probe_results, probeVars, open_handles>>
    /\ UNCHANGED beyondScan

\* the frame of a probe_dcs_port(p, b, t) call on a port whose device fails
\* the transport call f (or none) and sends the bytes w
probe_call(p, b, t, f, w) ==
    /\ port' = p
    /\ baudrate' = b
    /\ timeout' = t
    /\ fault' = f
    /\ wire' = w
    /\ ser' = NoSerial
    /\ rx' = <<>>
    /\ response' = <<>>
    /\ exc' = NoExc
    /\ result' = None
    /\ events' = <<>>
    /\ pc' = "probe_configure"
    /\ UNCHANGED beyondScan

\* lines 105-106: the next iteration calls probe_dcs_port(port, baudrate)
scan_probe_next ==
    /\ pc = "scan_loop"
    /\ idx <= Len(likely_ports)
    /\ \/ \E f \in Calls :
            probe_call(likely_ports[idx], default_baudrate,
                       probe_default_timeout, f, <<>>)
       \/ \E w \in ScanWires :
            probe_call(likely_ports[idx], default_baudrate,
                       probe_default_timeout, NoExc, w)
    /\ probe_calls' = Append(probe_calls, likely_ports[idx])
    /\ UNCHANGED <<system, all_ports, likely_ports, idx, found_devices,
                   scan_result, probe_results, caller, handle, open_handles>>

\* the pair put in front of the list
collected_in_front(found, p, identification) ==
    IF identification # None /\ the(identification) # <<>>
    THEN <<<<p, the(identification)>>>> \o found
    ELSE found

\* lines 107-108: found_devices after
\* if identification: found_devices.append((port, identification))
collected(found, p, identification) ==
    IF identification # None /\ the(identification) # <<>>
    THEN Append(found, <<p, the(identification)>>)
    ELSE found

\* lines 106-108: identification = probe_dcs_port(port, baudrate) returns and
\* is collected; the loop goes on with the next port
scan_collect ==
    /\ pc = "probe_return"
    /\ caller = "scan"
    /\ found_devices' = collected(found_devices, likely_ports[idx], result)
    /\ idx' = idx + 1
    /\ pc' = "scan_loop"
    /\ UNCHANGED <<system, all_ports, likely_ports, scan_result, probe_calls,
                   probe_results, caller, probeVars, open_handles>>
    /\ UNCHANGED beyondScan

\* line 110: return found_devices
scan_return ==
    /\ pc = "scan_loop"
    /\ idx > Len(likely_ports)
    /\ scan_result' = Some(found_devices)
    /\ pc' = "done"
    /\ UNCHANGED <<system, all_ports, likely_ports, idx, found_devices,
                   probe_calls, probe_results, caller, probeVars, open_handles>>
    /\ UNCHANGED beyondScan

(***************************************************************************)
(* Device Prober: probe_dcs_port, one action per statement.                *)
(***************************************************************************)
\* the direct calls read every string of at most MaxLen bytes over these:
\* 'D', 'C', 'S', 'c', 'X', newline and the byte 0xFF, which no UTF-8
\* sequence contains
ProbeBytes == {68, 67, 83, 99, 88, 10, 255}

\* longer responses: a core between a prefix and a line end
ProbeCores ==
    { SORENSEN,
      <<115, 111, 114, 101, 110, 115, 101, 110>>,
      <<83, 111, 114, 69, 110, 83, 101, 78>>,
      <<83, 79, 82, 69, 78, 83, 69>>,
      <<83, 79, 82, 69, 255, 78, 83, 69, 78>>,
      <<83, 79, 82, 69, 10, 78, 83, 69, 78>>,
      <<83, 111, 114, 101, 110, 115, 195, 169, 110>>,
      <<68, 195, 67, 83>>,
      <<68, 169, 67, 83>>,
      <<68, 67, 195, 169, 83>>,
      DCS,
      SubSeq(IdnLine, 1, Len(IdnLine) - 2),
      SubSeq(OtherLine, 1, Len(OtherLine) - 2) }

ProbePrefixes == {<<>>, <<32>>, <<255>>, <<13, 10>>}

ProbeEnds == {<<>>, <<10>>, <<13, 10>>, <<32, 10, 68, 67, 83>>}

\* what the device behind a directly probed port sends
ProbeWires ==
    SeqsUpTo(ProbeBytes, MaxLen)
    \cup { pre \o core \o end :
             pre \in ProbePrefixes, core \in ProbeCores, end \in ProbeEnds }

\* a call probe_dcs_port(port) or probe_dcs_port(port, baudrate, timeout) of
\* another caller than the scan
probe_dcs_port ==
    /\ pc = "idle"
    /\ \E p \in {COM3, ttyUSB0}, t \in {probe_default_timeout,
                                        Some(SCAN_TIMEOUT)} :
         \/ \E f \in Calls : probe_call(p, default_baudrate, t, f, <<>>)
         \/ \E w \in ProbeWires :
              probe_call(p, default_baudrate, t, NoExc, w)
    /\ caller' = "direct"
    /\ probe_calls' = Append(probe_calls, port')
    /\ UNCHANGED <<system, all_ports, likely_ports, idx, found_devices,
                   scan_result, probe_results, handle, open_handles>>

\* lines 59-64: ser = serial.Serial() and its port, baudrate, timeout, rts, dtr
probe_configure ==
    /\ pc = "probe_configure"
    /\ handle' = handle + 1
    /\ ser' = configured(port, baudrate, timeout)
    /\ pc' = "probe_open"
    /\ UNCHANGED <<callerVars, port, baudrate, timeout, fault, wire, rx,
                   response, exc, result, events, open_handles>>
    /\ UNCHANGED beyondScan

\* the transport call c raises on this port
raises(c) ==
    /\ fault = c
    /\ \E e \in Raised : exc' = e
    /\ pc' = "probe_except"

\* line 66: ser.open()
probe_open ==
    /\ pc = "probe_open"
    /\ events' = Append(events, Event("open", <<>>))
    /\ \/ /\ raises("open")
          /\ UNCHANGED <<ser, open_handles>>
       \/ /\ fault # "open"
          /\ ser' = [ser EXCEPT !.is_open = TRUE]
          /\ open_handles' = open_handles \cup {handle}
          /\ pc' = "probe_write"
          /\ UNCHANGED exc
    /\ UNCHANGED <<callerVars, port, baudrate, timeout, fault, wire, rx,
                   response, result, handle>>
    /\ UNCHANGED beyondScan

\* lines 69-70: ser.write("*IDN?\r".encode())
probe_write ==
    /\ pc = "probe_write"
    /\ events' = Append(events, Event("write", idn_command))
    /\ \/ raises("write")
       \/ /\ fault # "write"
          /\ pc' = "probe_readline"
          /\ UNCHANGED exc
    /\ UNCHANGED <<callerVars, port, baudrate, timeout, ser, fault, wire,
                   rx, response, result, handle, open_handles>>
    /\ UNCHANGED beyondScan

\* ser.readline() returns: the line is there, or the timeout expires
readline_returns(s, w) == contains(w, NEWLINE) \/ s.timeout # None

\* line 73: response = ser.readline().decode(...).strip(); line and text are
\* the values of the first two calls
probe_readline ==
    /\ pc = "probe_readline"
    /\ fault = "readline" \/ readline_returns(ser, wire)
    /\ events' = Append(events, Event("readline", <<>>))
    /\ \/ /\ raises("readline")
          /\ UNCHANGED <<rx, response>>
       \/ /\ fault # "readline"
          /\ \E line \in {readline(wire)} : \E text \in {decode(line)} :
                /\ rx' = line
                /\ response' = strip(text)
          /\ pc' = "probe_close"
          /\ UNCHANGED exc
    /\ UNCHANGED <<callerVars, port, baudrate, timeout, ser, fault, wire,
                   result, handle, open_handles>>
    /\ UNCHANGED beyondScan

\* line 75: ser.close()
probe_close ==
    /\ pc = "probe_close"
    /\ events' = Append(events, Event("close", <<>>))
    /\ ser' = [ser EXCEPT !.is_open = FALSE]
    /\ open_handles' = open_handles \ {handle}
    /\ pc' = "probe_classify"
    /\ UNCHANGED <<callerVars, port, baudrate, timeout, fault, wire, rx,
                   response, exc, result, handle>>
    /\ UNCHANGED beyondScan

\* lines 79-82: return response if it names a DCS, else return None
probe_classify ==
    /\ pc = "probe_classify"
    /\ result' = classify(response)
    /\ probe_results' = Append(probe_results, result')
    /\ pc' = "probe_return"
    /\ UNCHANGED <<scanVars, caller, port, baudrate, timeout, ser, fault, wire,
                   rx, response, exc, events, handle, open_handles>>
    /\ UNCHANGED beyondScan

\* lines 84-89: the handlers return None; an exception they do not catch
\* leaves probe_dcs_port and its caller.  The handlers do not close ser: the
\* port stays open until the interpreter finalizes the unreferenced Serial
\* object, which it may do at the return or not at all.
probe_except ==
    /\ pc = "probe_except"
    /\ IF caught(exc)
       THEN /\ result' = None
            /\ probe_results' = Append(probe_results, None)
            /\ pc' = "probe_return"
            /\ \E finalized \in BOOLEAN :
                 open_handles' =
                   IF finalized THEN open_handles \ {handle} ELSE open_handles
       ELSE /\ pc' = "raised"
            /\ UNCHANGED <<result, probe_results, open_handles>>
    /\ UNCHANGED <<scanVars, caller, port, baudrate, timeout, ser, fault, wire,
                   rx, response, exc, events, handle>>
    /\ UNCHANGED beyondScan

\* a directly called probe_dcs_port hands its result to its caller
probe_done ==
    /\ pc = "probe_return"
    /\ caller = "direct"
    /\ pc' = "done"
    /\ UNCHANGED <<callerVars, probeVars, open_handles>>
    /\ UNCHANGED beyondScan

Next ==
    \/ scan_for_dcs_devices
    \/ scan_probe_next
    \/ scan_collect
    \/ scan_return
    \/ probe_dcs_port
    \/ probe_configure
    \/ probe_open
    \/ probe_write
    \/ probe_readline
    \/ probe_close
    \/ probe_classify
    \/ probe_except
    \/ probe_done

Spec == Init /\ [][Next]_vars

\* the steps a running scan takes by itself, the steps of its probes
\* included
Run ==
    \/ scan_probe_next
    \/ scan_collect
    \/ scan_return
    \/ probe_configure
    \/ probe_open
    \/ probe_write
    \/ probe_readline
    \/ probe_close
    \/ probe_classify
    \/ probe_except

\* the port lists of the scans whose termination is checked
FewEnumerations == SeqsUpTo({COM3, ttyUSB0}, MaxPorts)

\* a call scan_for_dcs_devices() on a machine with at most two device paths
scan_few_ports == scan_call(Systems, FewEnumerations)

ScanNext == scan_few_ports \/ Run

\* the scans alone; a sequential program takes its next step whenever it
\* has one, while the application may never call
FairSpec == Init /\ [][ScanNext]_vars /\ WF_vars(Run)

\* the first scan of a process that scans more than once
scan_first == scan_call(RescanSystems, RescanEnumerations)

RescanNext == scan_first \/ scan_again \/ Run

\* a process that scans repeatedly
RescanSpec == Init /\ [][RescanNext]_vars

\* a process that asks for the candidate ports
EnumNext == likely_ports_call

EnumSpec == Init /\ [][EnumNext]_vars

(***************************************************************************)
(* DCSController (src/sorensen_gui/dcs_controller.py), the wrapper of the  *)
(* sorensenPower driver.  The driver is outside this program: each call    *)
(* made on it returns or raises.  Volts and amperes are in thousandths.    *)
(***************************************************************************)
\* most DCSController calls of one behaviour
MaxCalls == 3

\* what a call on the driver may raise
DriverRaised == {"SerialException", "ValueError"}

\* the numbers passed to and returned by the driver
Quantities == {12500, 3200}

\* a handler for serial errors only
controller_handler_serial_only(e) == e = "SerialException"

\* except Exception: the handler of every DCSController method
controller_handler(e) == TRUE

\* the test of the driver alone
is_connected_by_driver(held, flag) == held # None

\* lines 59-66: self._connected and self.power_supply is not None
is_connected(held, flag) == flag /\ held # None

\* the flag left as it was
connected_after_failure_kept(flag) == flag

\* line 45: self._connected = False
connected_after_failure(flag) == FALSE

\* the driver cleared and the flag left as it was
after_disconnect_flag_kept(held, flag, raised) == <<None, flag>>

\* driver and flag cleared only when the driver's disconnect returned
after_disconnect_without_finally(held, flag, raised) ==
    IF raised THEN <<held, flag>> ELSE <<None, FALSE>>

\* lines 55-57: finally: self.power_supply = None; self._connected = False
after_disconnect(held, flag, raised) == <<None, FALSE>>

\* a finished call of the method op: its arguments, the value it returned,
\* the exception that left it (if any), whether the driver raised during
\* it, and the controller and the number of driver calls when it began
Call(op, args, value, e, raised) ==
    [op |-> op, args |-> args, value |-> value,
     escaped |-> IF e = NoExc \/ controller_handler(e) THEN NoExc ELSE e,
     raised |-> raised, held |-> power_supply, flag |-> _connected,
     calls |-> Len(driver_calls)]

\* a call of a method of the driver held, and the value it returned (None
\* when it returned nothing or raised)
DriverCall(method, args, ret) ==
    [driver |-> the(power_supply), method |-> method, args |-> args,
     ret |-> ret]

\* lines 28-46: connect()
connect ==
    /\ Len(ctl_log) < MaxCalls
    /\ \/ /\ drivers' = drivers + 1
          /\ power_supply' = Some(drivers + 1)
          /\ _connected' = TRUE
          /\ ctl_log' = Append(ctl_log,
                               Call("connect", <<>>, TRUE, NoExc, FALSE))
       \/ \E e \in DriverRaised :
            /\ _connected' = IF controller_handler(e)
                             THEN connected_after_failure(_connected)
                             ELSE _connected
            /\ ctl_log' = Append(ctl_log, Call("connect", <<>>, FALSE, e, TRUE))
            /\ UNCHANGED <<power_supply, drivers>>
    /\ UNCHANGED driver_calls
    /\ UNCHANGED beyondController

\* lines 48-57: disconnect()
disconnect ==
    /\ Len(ctl_log) < MaxCalls
    /\ IF power_supply = None
       THEN /\ ctl_log' = Append(ctl_log,
                                 Call("disconnect", <<>>, None, NoExc, FALSE))
            /\ UNCHANGED <<power_supply, _connected, driver_calls>>
       ELSE /\ driver_calls' =
                  Append(driver_calls, DriverCall("disconnect", <<TRUE>>, None))
            /\ \E e \in DriverRaised \cup {NoExc} :
                 /\ \E after \in {after_disconnect(power_supply, _connected,
                                                   e # NoExc)} :
                      /\ power_supply' = after[1]
                      /\ _connected' = after[2]
                 /\ ctl_log' = Append(ctl_log,
                        Call("disconnect", <<>>, None, e, e # NoExc))
    /\ UNCHANGED drivers
    /\ UNCHANGED beyondController

\* the pair with the current in front
measurements_current_first(voltage, current) == <<current, voltage>>

\* line 82: return (voltage, current)
measurements(voltage, current) == <<voltage, current>>

\* lines 68-84: get_measurements()
get_measurements ==
    /\ Len(ctl_log) < MaxCalls
    /\ IF ~is_connected(power_supply, _connected)
       THEN /\ ctl_log' = Append(ctl_log,
                   Call("get_measurements", <<>>, None, NoExc, FALSE))
            /\ UNCHANGED driver_calls
       ELSE \/ \E voltage \in Quantities, current \in Quantities :
                 /\ driver_calls' = driver_calls \o
                        <<DriverCall("getOutputVoltage", <<>>, Some(voltage)),
                          DriverCall("getOutputCurrent", <<>>, Some(current))>>
                 /\ ctl_log' = Append(ctl_log,
                        Call("get_measurements", <<>>,
                             Some(measurements(voltage, current)),
                             NoExc, FALSE))
            \/ \E e \in DriverRaised :
                 /\ \/ driver_calls' = Append(driver_calls,
                            DriverCall("getOutputVoltage", <<>>, None))
                    \/ \E voltage \in Quantities :
                         driver_calls' = driver_calls \o
                            <<DriverCall("getOutputVoltage", <<>>,
                                         Some(voltage)),
                              DriverCall("getOutputCurrent", <<>>, None)>>
                 /\ ctl_log' = Append(ctl_log,
                        Call("get_measurements", <<>>, None, e, TRUE))
    /\ UNCHANGED <<power_supply, _connected, drivers>>
    /\ UNCHANGED beyondController

\* lines 86-103 and 105-122: the setter op, which calls the driver's method
set_output(op, method) ==
    /\ Len(ctl_log) < MaxCalls
    /\ \E x \in Quantities :
         IF ~is_connected(power_supply, _connected)
         THEN /\ ctl_log' = Append(ctl_log,
                                   Call(op, <<x>>, FALSE, NoExc, FALSE))
              /\ UNCHANGED driver_calls
         ELSE \/ \E accepted \in BOOLEAN :
                   /\ driver_calls' = Append(driver_calls,
                          DriverCall(method, <<x>>, Some(accepted)))
                   /\ ctl_log' = Append(ctl_log,
                          Call(op, <<x>>, accepted, NoExc, FALSE))
              \/ \E e \in DriverRaised :
                   /\ driver_calls' = Append(driver_calls,
                          DriverCall(method, <<x>>, None))
                   /\ ctl_log' = Append(ctl_log,
                                        Call(op, <<x>>, FALSE, e, TRUE))
    /\ UNCHANGED <<power_supply, _connected, drivers>>
    /\ UNCHANGED beyondController

set_voltage == set_output("set_voltage", "setOutputVoltage")

set_current == set_output("set_current", "setOutputCurrent")

\* lines 124-186: the getter op, which calls the driver's method
get_from_driver(op, method) ==
    /\ Len(ctl_log) < MaxCalls
    /\ IF ~is_connected(power_supply, _connected)
       THEN /\ ctl_log' = Append(ctl_log, Call(op, <<>>, None, NoExc, FALSE))
            /\ UNCHANGED driver_calls
       ELSE \/ \E x \in Quantities :
                 /\ driver_calls' = Append(driver_calls,
                                           DriverCall(method, <<>>, Some(x)))
                 /\ ctl_log' = Append(ctl_log,
                                      Call(op, <<>>, Some(x), NoExc, FALSE))
            \/ \E e \in DriverRaised :
                 /\ driver_calls' = Append(driver_calls,
                                           DriverCall(method, <<>>, None))
                 /\ ctl_log' = Append(ctl_log, Call(op, <<>>, None, e, TRUE))
    /\ UNCHANGED <<power_supply, _connected, drivers>>
    /\ UNCHANGED beyondController

get_model == get_from_driver("get_model", "getModel")

get_serial_number == get_from_driver("get_serial_number", "getSerialNumber")

get_max_voltage == get_from_driver("get_max_voltage", "getMaxVoltage")

get_max_current == get_from_driver("get_max_current", "getMaxCurrent")

ControllerNext ==
    \/ connect
    \/ disconnect
    \/ get_measurements
    \/ set_voltage
    \/ set_current
    \/ get_model
    \/ get_serial_number
    \/ get_max_voltage
    \/ get_max_current

\* an application that uses one DCSController
ControllerSpec == Init /\ [][ControllerNext]_vars

(***************************************************************************)
(* CSVLogger (src/sorensen_gui/logging_utils.py).  A row is a sequence of  *)
(* fields, a field a str.  A file object holds the rows written to it and  *)
(* not yet flushed, and the row position its next flush writes at; the     *)
(* file on disk holds what was flushed.  A float is a whole number of      *)
(* thousandths.                                                            *)
(***************************************************************************)
\* most CSVLogger calls of one behaviour
MaxLogCalls == 4

\* line 40: the header row
HeaderRow ==
    << <<"T", "i", "m", "e", "s", "t", "a", "m", "p">>,
       <<"V", "o", "l", "t", "a", "g", "e", " ", "(", "V", ")">>,
       <<"C", "u", "r", "r", "e", "n", "t", " ", "(", "A", ")">> >>

\* the measurements logged (volts, amperes)
Measurements == {<<12500, 3200>>, <<10000, 2500>>}

Digits == <<"0", "1", "2", "3", "4", "5", "6", "7", "8", "9">>

RECURSIVE decimal(_)
\* str(n) of an integer n >= 0
decimal(n) ==
    IF n < 10 THEN <<Digits[n + 1]>>
    ELSE decimal(n \div 10) \o <<Digits[(n % 10) + 1]>>

\* f"{x:.3f}" of a float x >= 0 of x thousandths
format3(x) ==
    decimal(x \div 1000) \o
    <<".", Digits[((x \div 100) % 10) + 1], Digits[((x \div 10) % 10) + 1],
      Digits[(x % 10) + 1]>>

\* datetime.isoformat() of the moment t seconds into the minute the logger
\* was made in
isoformat(t) ==
    <<"2", "0", "2", "6", "-", "0", "1", "-", "0",
      "1", "T", "0", "0", ":", "0", "0", ":">> \o
    <<Digits[((t \div 10) % 10) + 1], Digits[(t % 10) + 1]>>

\* a row with the current in front of the voltage
data_row_current_first(timestamp, voltage, current) ==
    <<timestamp, format3(current), format3(voltage)>>

\* lines 60-64: the row of one measurement
data_row(timestamp, voltage, current) ==
    <<timestamp, format3(voltage), format3(current)>>

\* the bytes of a file nothing was written to
Hole == <<>>

\* the file on disk replaced by the rows written
WriteAt_replacing(d, at, rows) == rows

\* the file on disk after rows were written to it from row position at on
WriteAt(d, at, rows) ==
    IF rows = <<>> THEN d
    ELSE [i \in 1..Max({Len(d), at + Len(rows)}) |->
             IF i > at /\ i <= at + Len(rows) THEN rows[i - at]
             ELSE IF i <= Len(d) THEN d[i] ELSE Hole]

\* the file object f after a flush
flushed(f) == [f EXCEPT !.buffer = <<>>, !.pos = f.pos + Len(f.buffer)]

\* the file opened for appending
not_truncated(d) == d

\* line 38: open(self.filepath, 'w', newline=''): the file on disk d emptied
truncated(d) == <<>>

\* a finished call of the method op: the value it returned, its arguments,
\* and the logger, its file objects and the disk when it began
LogCall(op, value, args) ==
    [op |-> op, value |-> value, args |-> args, file |-> file,
     writer |-> writer, files |-> files, disk |-> disk]

\* lines 30-44: open().  open(filepath, 'w') raises, or truncates the file
\* and gives a new file object; the file object the logger held before
\* loses its last reference when the writer is replaced, and an interpreter
\* that finalizes it then flushes and closes it
open_call(op) ==
    /\ Len(csv_log) < MaxLogCalls
    /\ \/ /\ csv_log' = Append(csv_log, LogCall(op, FALSE, <<>>))
          /\ UNCHANGED <<file, writer, files, disk>>
       \/ \E finalized \in (IF file = None THEN {FALSE} ELSE BOOLEAN) :
            /\ file' = Some(Len(files) + 1)
            /\ writer' = Some(Len(files) + 1)
            /\ files' = Append(IF finalized
                               THEN [files EXCEPT ![the(file)] =
                                       [flushed(@) EXCEPT !.closed = TRUE]]
                               ELSE files,
                               [closed |-> FALSE, buffer |-> <<HeaderRow>>,
                                pos |-> 0])
            /\ disk' = IF finalized
                       THEN WriteAt(truncated(disk), files[the(file)].pos,
                                    files[the(file)].buffer)
                       ELSE truncated(disk)
            /\ csv_log' = Append(csv_log, LogCall(op, TRUE, <<>>))
    /\ UNCHANGED now
    /\ UNCHANGED beyondLogger

open == open_call("open")

\* lines 76-79: __enter__(): self.open(), whose value is dropped; the call
\* is logged with that value
__enter__ == open_call("__enter__")

\* a close() that leaves the logger as it is
close_forgotten ==
    /\ Len(csv_log) < MaxLogCalls
    /\ csv_log' = Append(csv_log, LogCall("close", None, <<>>))
    /\ UNCHANGED <<file, writer, files, disk, now>>
    /\ UNCHANGED beyondLogger

\* lines 69-74: close(), called as op with the arguments args
close_call(op, args) ==
    /\ Len(csv_log) < MaxLogCalls
    /\ IF file # None
       THEN /\ disk' = WriteAt(disk, files[the(file)].pos,
                               files[the(file)].buffer)
            /\ files' = [files EXCEPT ![the(file)] =
                            [flushed(@) EXCEPT !.closed = TRUE]]
            /\ file' = None
            /\ writer' = None
       ELSE UNCHANGED <<file, writer, files, disk>>
    /\ csv_log' = Append(csv_log, LogCall(op, None, args))
    /\ UNCHANGED now
    /\ UNCHANGED beyondLogger

close == close_call("close", <<>>)

\* lines 81-83: __exit__(exc_type, exc_val, exc_tb) at the end of a with
\* body that ended normally or raised: self.close(); the exception of the
\* body, if any, goes on to the caller
__exit__ == \E raised \in BOOLEAN : close_call("__exit__", <<raised>>)

\* lines 46-67: log_measurement(voltage, current)
log_measurement ==
    /\ Len(csv_log) < MaxLogCalls
    /\ \E m \in Measurements :
         IF writer = None
         THEN /\ csv_log' = Append(csv_log, LogCall("log_measurement", FALSE, m))
              /\ UNCHANGED <<files, disk, now>>
         ELSE \E written \in
                    {[files EXCEPT ![the(writer)].buffer =
                         Append(@, data_row(isoformat(now), m[1], m[2]))]} :
                 /\ disk' = WriteAt(disk, written[the(file)].pos,
                                    written[the(file)].buffer)
                 /\ files' = [written EXCEPT ![the(file)] = flushed(@)]
                 /\ now' = now + 1
                 /\ csv_log' = Append(csv_log,
                                      LogCall("log_measurement", TRUE, m))
    /\ UNCHANGED <<file, writer>>
    /\ UNCHANGED beyondLogger

LoggerNext ==
    \/ open
    \/ log_measurement
    \/ close
    \/ __enter__
    \/ __exit__

\* an application that uses one CSVLogger
LoggerSpec == Init /\ [][LoggerNext]_vars

(***************************************************************************)
(* SorensenGUI (src/sorensen_gui/app.py).  Qt delivers one event at a time *)
(* to the handlers, on one thread: at the event loop, or inside a          *)
(* QApplication.processEvents() call of a handler, which then waits on     *)
(* gui_stack until the handlers of the events delivered there returned.    *)
(* A button takes a click only while it is enabled.  The GUI holds its own *)
(* sorensenPower driver; DCSController is not used by it.                  *)
(***************************************************************************)
\* most events delivered to the GUI in one behaviour
MaxEvents == 2

\* lines 129 and 135: setRange(0.0, 100.0)
initial_maximum == 100000

\* the machines the GUI runs on: what platform.system() and
\* serial.tools.list_ports.comports() give there
GuiSystems == {Windows}
GuiEnumerations == {<<>>, <<COM3, COM4>>}

\* (getMaxVoltage(), getMaxCurrent()) of the instruments; 0 stands for a
\* value that is zero or missing
Reported == {<<60000, 20000>>, <<150000, 5000>>, <<0, 0>>}

\* a handler waiting on gui_stack
Frame(handler, at, port_name) ==
    [handler |-> handler, at |-> at, port_name |-> port_name]

\* the event loop runs: at the top, or inside the processEvents() call of
\* the innermost handler
EventLoopRuns ==
    gui_stack # <<>> => gui_stack[Len(gui_stack)].at = "processEvents"

\* an event can be delivered
CanDispatch ==
    /\ window # <<>>
    /\ gui_events < MaxEvents
    /\ EventLoopRuns

\* the innermost handler is handler, and control is in it at the place at
Resumes(handler, at) ==
    /\ gui_stack # <<>>
    /\ gui_stack[Len(gui_stack)].handler = handler
    /\ gui_stack[Len(gui_stack)].at = at

\* lines 31-38, 40-162, 184-196: SorensenGUI(): init_ui and populate_port_list
init_ui ==
    /\ window = <<>>
    /\ \E sys \in GuiSystems, ports \in GuiEnumerations :
         window' = [find_button |-> TRUE,
                    connect_button |-> get_likely_ports(sys, ports) # <<>>,
                    disconnect_button |-> FALSE,
                    port_combo |-> TRUE,
                    items |-> get_likely_ports(sys, ports),
                    voltage_spinbox |-> FALSE,
                    current_spinbox |-> FALSE,
                    set_voltage_button |-> FALSE,
                    set_current_button |-> FALSE,
                    voltage_maximum |-> initial_maximum,
                    current_maximum |-> initial_maximum,
                    update_timer |-> FALSE]
    /\ UNCHANGED <<gui_power_supply, gui_stack, gui_drivers, gui_events>>
    /\ UNCHANGED <<scanVars, probe_results, caller, pc, probeVars,
                   open_handles, earlier_scans, controllerVars, loggerVars>>

\* what a handler of the GUI that does not scan leaves alone
beyondGui == <<scanVars, probe_results, caller, pc, probeVars, open_handles,
               earlier_scans, controllerVars, loggerVars>>

\* lines 198-202: a click on Find: find_dcs_devices() up to its
\* processEvents()
find_dcs_devices ==
    /\ CanDispatch
    /\ window.find_button
    /\ (IF pc = "idle" THEN 0 ELSE Len(earlier_scans) + 1)
       + Cardinality({i \in 1..Len(gui_stack) :
                         gui_stack[i].handler = "find_dcs_devices"})
       < MaxScans
    /\ gui_events' = gui_events + 1
    /\ window' = [window EXCEPT !.find_button = FALSE]
    /\ gui_stack' = Append(gui_stack,
                           Frame("find_dcs_devices", "processEvents", <<>>))
    /\ UNCHANGED <<gui_power_supply, gui_drivers>>
    /\ UNCHANGED beyondGui

\* line 205: processEvents() returned and find_dcs_devices() calls
\* PortScanner.scan_for_dcs_devices(), which runs on the same thread
find_dcs_devices_scan ==
    /\ Resumes("find_dcs_devices", "processEvents")
    /\ \/ /\ pc = "idle"
          /\ scan_enter(GuiSystems, GuiEnumerations)
          /\ UNCHANGED <<scan_result, probe_calls, probe_results, probeVars,
                         open_handles, earlier_scans>>
       \/ scan_rerun
    /\ gui_stack' = [gui_stack EXCEPT ![Len(gui_stack)].at = "scan"]
    /\ UNCHANGED <<window, gui_power_supply, gui_drivers, gui_events>>
    /\ UNCHANGED <<controllerVars, loggerVars>>

\* lines 207-220: the scan returned; find_dcs_devices() fills the combo box
\* and enables the buttons
find_dcs_devices_finish ==
    /\ Resumes("find_dcs_devices", "scan")
    /\ pc = "done"
    /\ window' = [window EXCEPT
                    !.items = [i \in 1..Len(the(scan_result)) |->
                                  the(scan_result)[i][1]],
                    !.connect_button = (the(scan_result) # <<>>),
                    !.find_button = TRUE]
    /\ gui_stack' = SubSeq(gui_stack, 1, Len(gui_stack) - 1)
    /\ UNCHANGED <<gui_power_supply, gui_drivers, gui_events>>
    /\ UNCHANGED beyondGui

\* lines 222-232: a click on Connect: connect_to_device() up to its
\* processEvents(), or to the warning when the combo box has no port
connect_to_device ==
    /\ CanDispatch
    /\ window.connect_button
    /\ gui_events' = gui_events + 1
    /\ IF window.items = <<>>
       THEN UNCHANGED gui_stack
       ELSE \E i \in 1..Len(window.items) :
              gui_stack' = Append(gui_stack,
                  Frame("connect_to_device", "processEvents", window.items[i]))
    /\ UNCHANGED <<window, gui_power_supply, gui_drivers>>
    /\ UNCHANGED beyondGui

\* lines 255-267: the controls after a connect
connected_controls(w, max_voltage, max_current) ==
    [w EXCEPT
       !.voltage_maximum = IF max_voltage # 0 THEN max_voltage ELSE @,
       !.current_maximum = IF max_current # 0 THEN max_current ELSE @,
       !.voltage_spinbox = TRUE, !.current_spinbox = TRUE,
       !.set_voltage_button = TRUE, !.set_current_button = TRUE,
       !.disconnect_button = TRUE, !.connect_button = FALSE,
       !.find_button = FALSE, !.port_combo = FALSE, !.update_timer = TRUE]

\* lines 234-272: processEvents() returned; connect_to_device() constructs
\* the driver, reads its identity and maxima and switches the controls, or
\* lands in its handler: the constructor raised, or a getter raised
connect_to_device_finish ==
    /\ Resumes("connect_to_device", "processEvents")
    /\ gui_stack' = SubSeq(gui_stack, 1, Len(gui_stack) - 1)
    /\ \/ /\ gui_power_supply' = None
          /\ UNCHANGED <<window, gui_drivers>>
       \/ \E r \in Reported :
            /\ gui_drivers' = Append(gui_drivers,
                   [port |-> gui_stack[Len(gui_stack)].port_name,
                    max_voltage |-> r[1], max_current |-> r[2],
                    disconnected |-> FALSE])
            /\ \/ /\ gui_power_supply' = None
                  /\ UNCHANGED window
               \/ /\ gui_power_supply' = Some(Len(gui_drivers) + 1)
                  /\ window' = connected_controls(window, r[1], r[2])
    /\ UNCHANGED gui_events
    /\ UNCHANGED beyondGui

\* lines 274-304: a click on Disconnect: disconnect_from_device()
disconnect_from_device ==
    /\ CanDispatch
    /\ window.disconnect_button
    /\ gui_events' = gui_events + 1
    /\ gui_drivers' = IF gui_power_supply = None THEN gui_drivers
                      ELSE [gui_drivers EXCEPT
                              ![the(gui_power_supply)].disconnected = TRUE]
    /\ gui_power_supply' = None
    /\ window' = [window EXCEPT
                    !.update_timer = FALSE,
                    !.voltage_spinbox = FALSE, !.current_spinbox = FALSE,
                    !.set_voltage_button = FALSE, !.set_current_button = FALSE,
                    !.disconnect_button = FALSE, !.connect_button = TRUE,
                    !.find_button = TRUE, !.port_combo = TRUE]
    /\ UNCHANGED gui_stack
    /\ UNCHANGED beyondGui

\* lines 306-342: a timeout of update_timer (update_readings) or a click on
\* Set Voltage or Set Current: the driver held, if any, is read or written,
\* and only labels change
update_readings ==
    /\ CanDispatch
    /\ \/ window.update_timer
       \/ window.set_voltage_button
       \/ window.set_current_button
    /\ gui_events' = gui_events + 1
    /\ UNCHANGED <<window, gui_power_supply, gui_stack, gui_drivers>>
    /\ UNCHANGED beyondGui

GuiNext ==
    \/ init_ui
    \/ find_dcs_devices
    \/ find_dcs_devices_scan
    \/ find_dcs_devices_finish
    \/ connect_to_device
    \/ connect_to_device_finish
    \/ disconnect_from_device
    \/ update_readings
    \/ Run

\* the application: one SorensenGUI window and the events of its user
GuiSpec == Init /\ [][GuiNext]_vars

(***************************************************************************)
(* Notions the properties are stated with.                                 *)
(***************************************************************************)
\* the positions of probe_dcs_port between serial.Serial() and a return
InTransport == pc \in {"probe_open", "probe_write", "probe_readline"}

\* probe_dcs_port has returned (and its caller has not yet gone on)
Returned == pc = "probe_return"

\* no transport call of the probe raised
NoFailure == fault = NoExc /\ exc = NoExc

IsPrefix(s, u) == Len(s) <= Len(u) /\ s = SubSeq(u, 1, Len(s))

NoDuplicates(s) == \A i, j \in 1..Len(s) : s[i] = s[j] => i = j

\* open, write b"*IDN?\r", readline, close
IdnExchange ==
    << Event("open", <<>>), Event("write", <<42, 73, 68, 78, 63, 13>>),
       Event("readline", <<>>), Event("close", <<>>) >>

\* the number of calls c among the events
Count(ev, c) == Cardinality({i \in 1..Len(ev) : ev[i].call = c})

RECURSIVE FoundPairs(_, _)
\* the (port, identification) pairs of the probes that returned an
\* identification, in the order of the probes
FoundPairs(ports, results) ==
    IF ports = <<>> \/ results = <<>> THEN <<>>
    ELSE (IF Head(results) # None
          THEN <<<<Head(ports), the(Head(results))>>>>
          ELSE <<>>)
         \o FoundPairs(Tail(ports), Tail(results))

\* s is d without its leading and trailing whitespace
IsStripOf(s, d) ==
    \E i \in 1..(Len(d) + 1) : \E j \in (i - 1)..Len(d) :
        /\ s = SubSeq(d, i, j)
        /\ \A k \in 1..(i - 1) : d[k] \in Whitespace
        /\ \A k \in (j + 1)..Len(d) : d[k] \in Whitespace
        /\ s # <<>> => s[1] \notin Whitespace /\ s[Len(s)] \notin Whitespace

\* s contains the upper-case ASCII marker m, letters compared without case
ContainsIgnoreCase(s, m) ==
    \E i \in 1..(Len(s) - Len(m) + 1) :
        \A j \in 1..Len(m) : s[i + j - 1] \in {m[j], m[j] + 32}

\* s names a DCS: it contains 'SORENSEN' or 'DCS' in any case
HasMarker(s) ==
    \/ ContainsIgnoreCase(s, <<83, 79, 82, 69, 78, 83, 69, 78>>)
    \/ ContainsIgnoreCase(s, <<68, 67, 83>>)

RECURSIVE ValidUTF8(_)
\* bs is a sequence of well-formed one- and two-byte UTF-8 sequences
ValidUTF8(bs) ==
    IF bs = <<>> THEN TRUE
    ELSE IF Head(bs) < 128 THEN ValidUTF8(Tail(bs))
    ELSE /\ Head(bs) \in 194..223
         /\ Len(bs) >= 2
         /\ bs[2] \in 128..191
         /\ ValidUTF8(SubSeq(bs, 3, Len(bs)))

(***************************************************************************)
(* C1  probe_dcs_port has closed the transport it opened when it returns,  *)
(* on every path: after the read, after an empty read, after an exception  *)
(* of write or readline.                                                   *)
(***************************************************************************)
C1_ClosedAtReturn == Returned => handle \notin open_handles

(***************************************************************************)
(* C2  During a scan at most one transport of the prober is open, and      *)
(* none is open when the next candidate's transport is about to be opened. *)
(***************************************************************************)
C2_AtMostOneOpen ==
    caller = "scan" =>
        /\ Cardinality(open_handles) <= 1
        /\ pc = "probe_open" => open_handles = {}

(***************************************************************************)
(* C3  No exception leaves probe_dcs_port: when open, write or readline    *)
(* raises, or the read times out with zero bytes, the probe returns None.  *)
(***************************************************************************)
C3_NeverPropagates ==
    /\ pc # "raised"
    /\ pc = "probe_except" => exc # NoExc
    /\ Returned /\ exc # NoExc => result = None
    /\ Returned /\ exc = NoExc /\ rx = <<>> => result = None

C3_Witness ==
    /\ Returned
    /\ fault = "readline"
    /\ exc = "RuntimeError"
    /\ result = None

(***************************************************************************)
(* C4  A scan probes every candidate exactly once, in enumeration order,   *)
(* whatever the earlier probes gave, and returns exactly the pairs of the  *)
(* candidates whose probe found a device, in the order of the candidates;  *)
(* an empty candidate list gives an empty result and no probe.             *)
(***************************************************************************)
C4_ScanProbesEachOnce ==
    caller = "scan" =>
        /\ IsPrefix(probe_calls, likely_ports)
        /\ Len(probe_calls) - Len(probe_results) \in {0, 1}
        /\ pc = "scan_loop" => Len(probe_results) = Len(probe_calls)
        /\ pc = "done" =>
             /\ probe_calls = likely_ports
             /\ Len(probe_results) = Len(likely_ports)
             /\ scan_result = Some(FoundPairs(likely_ports, probe_results))

C4_Witness ==
    /\ caller = "scan"
    /\ pc = "done"
    /\ Len(likely_ports) = 3
    /\ NoDuplicates(likely_ports)
    /\ probe_results[1] = None
    /\ probe_results[2] # None
    /\ probe_results[3] = None
    /\ scan_result = Some(<<<<likely_ports[2], the(probe_results[2])>>>>)

(***************************************************************************)
(* C5  The transport calls of one probe are, in this order, open, one      *)
(* write of exactly b"*IDN?\r", one readline, close; a call is made only   *)
(* when the calls before it succeeded, and none is repeated.               *)
(***************************************************************************)
C5_OneExchange ==
    /\ IsPrefix(events, IdnExchange)
    /\ Count(events, "write") <= 1 /\ Count(events, "readline") <= 1
    /\ exc # NoExc => events[Len(events)].call = fault
    /\ fault = "open" => Len(events) <= 1
    /\ Returned /\ NoFailure => events = IdnExchange

C5_Witness == Returned /\ NoFailure /\ events = IdnExchange

(***************************************************************************)
(* C6  When open, write and readline succeed, the probe returns the        *)
(* stripped response exactly when it is not empty and contains 'SORENSEN'  *)
(* or 'DCS' in any case, with its case kept; otherwise it returns None.    *)
(***************************************************************************)
C6_Classification ==
    Returned /\ NoFailure =>
        /\ IsStripOf(response, decode(rx))
        /\ result = IF response # <<>> /\ HasMarker(response)
                    THEN Some(response)
                    ELSE None

C6_Witness ==
    /\ Returned /\ NoFailure
    /\ result # None
    /\ the(result) # upper(the(result))
    /\ Len(the(result)) < Len(rx)

(***************************************************************************)
(* C7  A response with a byte that is not decodable as UTF-8 gives None,   *)
(* whatever its other bytes are.                                           *)
(***************************************************************************)
C7_UndecodableIsNotFound == Returned /\ ~ValidUTF8(rx) => result = None

(***************************************************************************)
(* C8  Every probe of a scan reads with the timeout SCAN_TIMEOUT, which    *)
(* is shorter than TIMEOUT.                                                *)
(***************************************************************************)
C8_ScanTimeout ==
    caller = "scan" /\ InTransport =>
        /\ ser.timeout = Some(SCAN_TIMEOUT)
        /\ SCAN_TIMEOUT < TIMEOUT

(***************************************************************************)
(* C9  A scan terminates: every probe returns, and a started scan returns  *)
(* with an outcome for every candidate.                                    *)
(***************************************************************************)
C9_ScanTerminates ==
    /\ (pc = "probe_configure") ~> Returned
    /\ (caller = "scan") ~>
          (pc = "done" /\ scan_result # None
                       /\ Len(probe_results) = Len(likely_ports))

C9_Witness ==
    /\ caller = "scan"
    /\ pc = "done"
    /\ Len(likely_ports) >= 2
    /\ fault = NoExc /\ wire = <<>> /\ rx = <<>>
    /\ Len(probe_results) = Len(likely_ports)

(***************************************************************************)
(* C10  The result of get_likely_ports holds no device path twice,         *)
(* whatever the operating system lists.                                    *)
(***************************************************************************)
C10_NoDuplicatePorts == caller = "scan" => NoDuplicates(likely_ports)

(***************************************************************************)
(* Notions of the candidate list.                                          *)
(***************************************************************************)
\* the path d begins with the characters p
HasPrefix(d, p) ==
    /\ Len(d) >= Len(p)
    /\ \A i \in 1..Len(p) : d[i] = p[i]

\* the characters p stand somewhere in the path d
HasInfix(d, p) ==
    \E k \in 0..(Len(d) - Len(p)) : \A i \in 1..Len(p) : d[k + i] = p[i]

\* the rule of the platform sys holds of the path d
PlatformRule(sys, d) ==
    CASE sys = Windows -> HasPrefix(d, COM)
      [] sys = Linux -> \/ HasPrefix(d, dev_ttyUSB)
                        \/ HasPrefix(d, dev_ttyACM)
                        \/ HasPrefix(d, dev_ttyS)
      [] sys = Darwin -> \/ HasInfix(d, dev_tty_usbserial)
                         \/ HasInfix(d, dev_cu_usbserial)
                         \/ HasInfix(d, dev_tty_usbmodem)
                         \/ HasInfix(d, dev_cu_usbmodem)
      [] OTHER -> TRUE

\* r lists exactly the elements of s at the positions kept, in their order
IsSelection(r, s, kept) ==
    /\ Len(r) = Cardinality(kept)
    /\ \A i \in kept : r[Cardinality({j \in kept : j <= i})] = s[i]

(***************************************************************************)
(* C11  get_likely_ports returns exactly the paths of the operating        *)
(* system's enumeration that satisfy the rule of the platform, in the      *)
(* order of the enumeration: on Windows the paths beginning with 'COM', on *)
(* Linux those beginning with '/dev/ttyUSB', '/dev/ttyACM' or '/dev/ttyS', *)
(* on Darwin those containing '/dev/tty.usbserial', '/dev/cu.usbserial',   *)
(* '/dev/tty.usbmodem' or '/dev/cu.usbmodem', elsewhere every path; an     *)
(* enumeration without a matching path gives the empty list.               *)
(***************************************************************************)
C11_PlatformFilter ==
    caller \in {"enumerate", "scan"} =>
        IsSelection(likely_ports, all_ports,
                    {i \in 1..Len(all_ports) :
                        PlatformRule(system, all_ports[i])})

C11_Witness ==
    /\ caller = "enumerate"
    /\ pc = "done"
    /\ system = Linux
    /\ all_ports = <<ttyS0, ttyAMA0, ttyACM0>>
    /\ likely_ports = <<ttyS0, ttyACM0>>

(***************************************************************************)
(* C12  A scan keeps nothing of the scans before it: however those ended,  *)
(* it enumerates again, probes every candidate of its own enumeration      *)
(* again, and returns what its own enumeration and the answers to its own  *)
(* probes determine.                                                       *)
(***************************************************************************)
C12_ScanFromScratch ==
    (caller = "scan" /\ pc = "done") =>
        /\ likely_ports = get_likely_ports(system, all_ports)
        /\ probe_calls = likely_ports
        /\ Len(probe_results) = Len(probe_calls)
        /\ scan_result = Some(FoundPairs(probe_calls, probe_results))

C12_Witness ==
    /\ caller = "scan"
    /\ pc = "done"
    /\ Len(earlier_scans) = 1
    /\ Len(earlier_scans[1]) = 1
    /\ earlier_scans[1][1][1] = COM3
    /\ all_ports = <<COM3, ttyUSB0>>
    /\ probe_calls = <<COM3, ttyUSB0>>
    /\ probe_results[1] = None
    /\ probe_results[2] # None
    /\ Len(the(scan_result)) = 1
    /\ the(scan_result)[1][1] = ttyUSB0

(***************************************************************************)
(* C13  A probe sets the port name, the baud rate, the timeout and the     *)
(* asserted RTS and DTR lines on its Serial object before it opens the     *)
(* transport, so the identification command is only ever written on a      *)
(* transport that was opened with RTS and DTR asserted.                    *)
(***************************************************************************)
C13_ConfiguredBeforeOpen ==
    /\ \A i \in 1..Len(events) :
         events[i].call = "open" =>
             /\ ser.port = port
             /\ ser.baudrate = baudrate
             /\ ser.timeout = timeout
             /\ ser.rts
             /\ ser.dtr
    /\ \A i \in 1..Len(events) :
         events[i].call = "write" =>
             /\ \E j \in 1..(i - 1) : events[j].call = "open"
             /\ ser.rts
             /\ ser.dtr

C13_Witness ==
    /\ pc = "probe_readline"
    /\ Len(events) = 2
    /\ events[2] = Event("write", idn_command)
    /\ ser.is_open
    /\ ser.rts
    /\ ser.dtr
    /\ ser.port = ttyUSB0

(***************************************************************************)
(* Notions of the controller.                                              *)
(***************************************************************************)
\* the controller (driver held, flag) after the n-th call
HeldAfter(n) == IF n = Len(ctl_log) THEN power_supply ELSE ctl_log[n + 1].held

FlagAfter(n) == IF n = Len(ctl_log) THEN _connected ELSE ctl_log[n + 1].flag

\* the driver calls made during the n-th call
CallsDuring(n) ==
    SubSeq(driver_calls, ctl_log[n].calls + 1,
           IF n = Len(ctl_log) THEN Len(driver_calls)
           ELSE ctl_log[n + 1].calls)

\* by the first n calls alone: the most recent connect succeeded and
\* disconnect was not called since
ConnectedByHistory(n) ==
    \E i \in 1..n :
        /\ ctl_log[i].op = "connect"
        /\ ctl_log[i].value
        /\ \A j \in (i + 1)..n : ctl_log[j].op \notin {"connect", "disconnect"}

Setters == {"set_voltage", "set_current"}

Getters == {"get_measurements", "get_model", "get_serial_number",
            "get_max_voltage", "get_max_current"}

(***************************************************************************)
(* C14  After any sequence of connect and disconnect calls (and of the     *)
(* other methods) is_connected() is true exactly when the most recent      *)
(* connect succeeded and disconnect was not called since; it is false      *)
(* initially, after a failed connect and after disconnect.                 *)
(***************************************************************************)
C14_ConnectedIffLastConnect ==
    is_connected(power_supply, _connected) <=> ConnectedByHistory(Len(ctl_log))

C14_Witness ==
    /\ Len(ctl_log) = 3
    /\ ctl_log[1].op = "connect" /\ ctl_log[1].value
    /\ ctl_log[2].op = "get_model"
    /\ ctl_log[3].op = "connect" /\ ~ctl_log[3].value
    /\ power_supply # None
    /\ ~is_connected(power_supply, _connected)

(***************************************************************************)
(* C15  No exception of the driver leaves a DCSController method: when the *)
(* driver raises, connect and the setters return False, the getters return *)
(* None and disconnect returns normally; a getter or setter in which the   *)
(* driver raised leaves the driver held and the connection flag as they    *)
(* were.                                                                   *)
(***************************************************************************)
C15_NoDriverExceptionEscapes ==
    \A n \in 1..Len(ctl_log) :
        /\ ctl_log[n].escaped = NoExc
        /\ ctl_log[n].raised =>
             /\ ctl_log[n].op \in Setters \cup {"connect"} =>
                    ctl_log[n].value = FALSE
             /\ ctl_log[n].op \in Getters \cup {"disconnect"} =>
                    ctl_log[n].value = None
             /\ ctl_log[n].op \in Getters \cup Setters =>
                    /\ HeldAfter(n) = ctl_log[n].held
                    /\ FlagAfter(n) = ctl_log[n].flag

C15_Witness ==
    /\ Len(ctl_log) = 3
    /\ ctl_log[1].op = "connect"
    /\ ctl_log[2].op = "get_measurements" /\ ctl_log[2].raised
    /\ Len(CallsDuring(2)) = 2
    /\ ctl_log[3].op = "set_voltage" /\ ctl_log[3].raised
    /\ is_connected(power_supply, _connected)

(***************************************************************************)
(* C16  While the controller is not connected (never connected, the last   *)
(* connect failed, or disconnected) every getter returns None and every    *)
(* setter returns False, and none of them calls a method of the driver.    *)
(***************************************************************************)
C16_NotConnectedNoDriverCall ==
    \A n \in 1..Len(ctl_log) :
        (ctl_log[n].op \in Getters \cup Setters /\ ~ConnectedByHistory(n - 1))
        => /\ CallsDuring(n) = <<>>
           /\ ctl_log[n].op \in Getters => ctl_log[n].value = None
           /\ ctl_log[n].op \in Setters => ctl_log[n].value = FALSE

C16_Witness ==
    /\ Len(ctl_log) = 3
    /\ ctl_log[1].op = "connect" /\ ctl_log[1].value
    /\ ctl_log[2].op = "connect" /\ ~ctl_log[2].value
    /\ ctl_log[3].op = "set_current"
    /\ ctl_log[3].held # None
    /\ ctl_log[3].value = FALSE
    /\ driver_calls = <<>>

(***************************************************************************)
(* C17  disconnect on a controller that holds a driver calls that driver's *)
(* disconnect(returnToLocal=True) exactly once, and afterwards the         *)
(* controller holds no driver and is not connected, also when the driver's *)
(* disconnect raised; disconnect on a controller without a driver calls    *)
(* nothing and changes nothing.                                            *)
(***************************************************************************)
C17_DisconnectReleases ==
    \A n \in 1..Len(ctl_log) :
        ctl_log[n].op = "disconnect" =>
            IF ctl_log[n].held # None
            THEN /\ Len(CallsDuring(n)) = 1
                 /\ CallsDuring(n)[1].method = "disconnect"
                 /\ CallsDuring(n)[1].driver = the(ctl_log[n].held)
                 /\ CallsDuring(n)[1].args = <<TRUE>>
                 /\ HeldAfter(n) = None
                 /\ ~is_connected(HeldAfter(n), FlagAfter(n))
            ELSE /\ CallsDuring(n) = <<>>
                 /\ HeldAfter(n) = None
                 /\ FlagAfter(n) = ctl_log[n].flag

C17_Witness ==
    /\ Len(ctl_log) = 2
    /\ ctl_log[1].op = "connect" /\ ctl_log[1].value
    /\ ctl_log[2].op = "disconnect" /\ ctl_log[2].raised
    /\ Len(driver_calls) = 1
    /\ power_supply = None
    /\ ~_connected

(***************************************************************************)
(* Notions of the logger.                                                  *)
(***************************************************************************)
\* the disk and the file objects after the n-th call
DiskAfter(n) == IF n = Len(csv_log) THEN disk ELSE csv_log[n + 1].disk

FilesAfter(n) == IF n = Len(csv_log) THEN files ELSE csv_log[n + 1].files

IsDigit(ch) == \E d \in 1..10 : Digits[d] = ch

RECURSIVE Number(_)
\* the number the decimal digits ds write
Number(ds) ==
    IF ds = <<>> THEN 0
    ELSE 10 * Number(SubSeq(ds, 1, Len(ds) - 1))
         + (CHOOSE d \in 0..9 : Digits[d + 1] = ds[Len(ds)])

\* the field t writes a number with exactly three decimals
HasThreeDecimals(t) ==
    /\ Len(t) >= 5
    /\ t[Len(t) - 3] = "."
    /\ \A i \in (1..Len(t)) \ {Len(t) - 3} : IsDigit(t[i])

\* the thousandths the field t writes
Thousandths(t) == Number(SelectSeq(t, IsDigit))

\* by the first n calls alone: the logger was never opened, or was closed
\* after the last open that succeeded
NotOpenByHistory(n) ==
    \A i \in 1..n :
        (csv_log[i].op \in {"open", "__enter__"} /\ csv_log[i].value)
        => \E j \in (i + 1)..n : csv_log[j].op \in {"close", "__exit__"}

\* the calls after the o-th up to the last are successful log_measurement
\* calls, and the last is close
LoggedAndClosed(o) ==
    /\ o < Len(csv_log)
    /\ csv_log[Len(csv_log)].op = "close"
    /\ \A k \in (o + 1)..(Len(csv_log) - 1) :
         csv_log[k].op = "log_measurement" /\ csv_log[k].value

(***************************************************************************)
(* C18  After an open() that succeeded, N successful log_measurement calls *)
(* and close(), the file holds exactly N + 1 rows: the header              *)
(* ['Timestamp', 'Voltage (V)', 'Current (A)'] and then one row per call,  *)
(* in the order of the calls, each carrying the voltage and the current of *)
(* its call with three decimals.                                           *)
(***************************************************************************)
C18_HeaderAndOneRowPerCall ==
    \A o \in 1..Len(csv_log) :
        (csv_log[o].op = "open" /\ csv_log[o].value /\ LoggedAndClosed(o))
        => /\ Len(disk) = Len(csv_log) - o
           /\ disk[1] = HeaderRow
           /\ \A k \in 1..(Len(csv_log) - o - 1) :
                /\ Len(disk[k + 1]) = 3
                /\ HasThreeDecimals(disk[k + 1][2])
                /\ HasThreeDecimals(disk[k + 1][3])
                /\ Thousandths(disk[k + 1][2]) = csv_log[o + k].args[1]
                /\ Thousandths(disk[k + 1][3]) = csv_log[o + k].args[2]

C18_Witness ==
    /\ Len(csv_log) = 4
    /\ csv_log[1].op = "open" /\ csv_log[1].value
    /\ csv_log[2].args = <<12500, 3200>>
    /\ csv_log[3].args = <<10000, 2500>>
    /\ csv_log[4].op = "close"
    /\ Len(disk) = 3
    /\ disk[2][2] = <<"1", "2", ".", "5", "0", "0">>
    /\ disk[2][3] = <<"3", ".", "2", "0", "0">>
    /\ disk[3][2] = <<"1", "0", ".", "0", "0", "0">>
    /\ disk[3][3] = <<"2", ".", "5", "0", "0">>

(***************************************************************************)
(* C19  The file is flushed after each write: after every row written,     *)
(* the header row of open() as well as every data row of log_measurement,  *)
(* all rows written so far are in the file and none is only in a buffer,   *)
(* so that a crash between two operations loses no row.                    *)
(***************************************************************************)
C19_FlushedAfterEachWrite ==
    \A f \in 1..Len(files) : files[f].buffer = <<>>

(***************************************************************************)
(* C20  log_measurement on a logger that is not open (never opened, or     *)
(* closed) returns False and writes nothing, neither to the file nor to a  *)
(* buffer.                                                                 *)
(***************************************************************************)
C20_NotOpenWritesNothing ==
    \A n \in 1..Len(csv_log) :
        (csv_log[n].op = "log_measurement" /\ NotOpenByHistory(n - 1))
        => /\ csv_log[n].value = FALSE
           /\ DiskAfter(n) = csv_log[n].disk
           /\ FilesAfter(n) = csv_log[n].files

C20_Witness ==
    /\ Len(csv_log) = 4
    /\ csv_log[1].op = "open" /\ csv_log[1].value
    /\ csv_log[2].op = "log_measurement" /\ csv_log[2].value
    /\ csv_log[3].op = "close"
    /\ csv_log[4].op = "log_measurement" /\ ~csv_log[4].value
    /\ Len(disk) = 2
    /\ file = None

\* the logger after the n-th call
FileAfter(n) == IF n = Len(csv_log) THEN file ELSE csv_log[n + 1].file

WriterAfter(n) == IF n = Len(csv_log) THEN writer ELSE csv_log[n + 1].writer

\* the calls e..x are one with statement: __enter__, a body of
\* log_measurement calls, __exit__
IsWithBlock(e, x) ==
    /\ e < x
    /\ csv_log[e].op = "__enter__"
    /\ csv_log[x].op = "__exit__"
    /\ \A k \in (e + 1)..(x - 1) : csv_log[k].op = "log_measurement"

(***************************************************************************)
(* C21  A with statement on a CSVLogger opens the file on entry and closes *)
(* it on exit, whether the body ended normally or raised: after the exit   *)
(* the logger holds no file and no writer, and the file holds the header   *)
(* row and then the rows of the log_measurement calls of the body.         *)
(***************************************************************************)
C21_WithBlockOpensAndCloses ==
    \A e \in 1..Len(csv_log), x \in 1..Len(csv_log) :
        IsWithBlock(e, x) =>
            /\ csv_log[e + 1].file # None
            /\ FileAfter(x) = None
            /\ WriterAfter(x) = None
            /\ Len(DiskAfter(x)) = x - e
            /\ DiskAfter(x)[1] = HeaderRow
            /\ \A k \in 1..(x - e - 1) :
                 /\ Thousandths(DiskAfter(x)[k + 1][2]) = csv_log[e + k].args[1]
                 /\ Thousandths(DiskAfter(x)[k + 1][3]) = csv_log[e + k].args[2]

(***************************************************************************)
(* C24  On a connected controller whose driver does not raise, set_voltage *)
(* and set_current each call the driver's setter of the same quantity      *)
(* exactly once, with the value given, and return the boolean the driver   *)
(* returned; get_measurements reads the output voltage and then the output *)
(* current, each exactly once, and returns the pair (voltage, current).    *)
(***************************************************************************)
C24_PassesThrough ==
    \A n \in 1..Len(ctl_log) :
        (ConnectedByHistory(n - 1) /\ ~ctl_log[n].raised) =>
            /\ ctl_log[n].op \in Setters =>
                 /\ Len(CallsDuring(n)) = 1
                 /\ CallsDuring(n)[1].method =
                        (IF ctl_log[n].op = "set_voltage"
                         THEN "setOutputVoltage" ELSE "setOutputCurrent")
                 /\ CallsDuring(n)[1].args = ctl_log[n].args
                 /\ ctl_log[n].value = the(CallsDuring(n)[1].ret)
            /\ ctl_log[n].op = "get_measurements" =>
                 /\ Len(CallsDuring(n)) = 2
                 /\ CallsDuring(n)[1].method = "getOutputVoltage"
                 /\ CallsDuring(n)[2].method = "getOutputCurrent"
                 /\ ctl_log[n].value = Some(<<the(CallsDuring(n)[1].ret),
                                              the(CallsDuring(n)[2].ret)>>)

C24_Witness ==
    /\ Len(ctl_log) = 3
    /\ ctl_log[1].op = "connect"
    /\ ctl_log[2].op = "set_current" /\ ctl_log[2].args = <<3200>>
    /\ ~ctl_log[2].raised /\ ~ctl_log[2].value
    /\ ctl_log[3].op = "get_measurements"
    /\ ctl_log[3].value = Some(<<12500, 3200>>)
    /\ Len(driver_calls) = 3

\* the drivers the controller constructed on which disconnect was not called
Undisconnected ==
    {d \in 1..drivers :
        \A i \in 1..Len(driver_calls) :
            ~(driver_calls[i].method = "disconnect"
              /\ driver_calls[i].driver = d)}

(***************************************************************************)
(* C25  At most one driver that the controller constructed has not had     *)
(* its disconnect called: connect never replaces or abandons a driver      *)
(* whose disconnect was not called.                                        *)
(***************************************************************************)
C25_AtMostOneLiveDriver == Cardinality(Undisconnected) <= 1

(***************************************************************************)
(* C26  Whenever the connection flag is true a driver is held; a driver is *)
(* held with the flag false only after a failed connect that followed a    *)
(* successful connect with no disconnect in between.                       *)
(***************************************************************************)
C26_FlagImpliesDriver ==
    /\ _connected => power_supply # None
    /\ (power_supply # None /\ ~_connected) =>
         \E i \in 1..Len(ctl_log), j \in 1..Len(ctl_log) :
             /\ i < j
             /\ ctl_log[i].op = "connect" /\ ctl_log[i].value
             /\ ctl_log[j].op = "connect" /\ ~ctl_log[j].value
             /\ \A k \in (i + 1)..Len(ctl_log) : ctl_log[k].op # "disconnect"
             /\ \A k \in (j + 1)..Len(ctl_log) : ctl_log[k].op # "connect"

C26_Witness ==
    /\ Len(ctl_log) = 3
    /\ ctl_log[1].op = "connect" /\ ctl_log[1].value
    /\ ctl_log[2].op = "connect" /\ ~ctl_log[2].value
    /\ ctl_log[3].op = "get_measurements"
    /\ power_supply = Some(1)
    /\ ~_connected

(***************************************************************************)
(* C27  At most one file object the logger opened is open, and the logger  *)
(* holds a writer only while it holds an open file: open() on a logger     *)
(* that is already open leaves no earlier file object open.                *)
(***************************************************************************)
C27_AtMostOneOpenFile ==
    /\ Cardinality({f \in 1..Len(files) : ~files[f].closed}) <= 1
    /\ writer # None => (file # None /\ ~files[the(file)].closed)

(***************************************************************************)
(* C28  Every open() that succeeded truncates the file: right after it the *)
(* log (the file together with what its file object has yet to flush)      *)
(* holds the header row and nothing else, and the file holds no row logged *)
(* before the open.                                                        *)
(***************************************************************************)
C28_OpenTruncates ==
    \A n \in 1..Len(csv_log) :
        (csv_log[n].op = "open" /\ csv_log[n].value)
        => /\ DiskAfter(n) \in {<<>>, <<HeaderRow>>}
           /\ WriteAt(DiskAfter(n), FilesAfter(n)[the(FileAfter(n))].pos,
                      FilesAfter(n)[the(FileAfter(n))].buffer) = <<HeaderRow>>

C28_Witness ==
    /\ Len(csv_log) = 4
    /\ csv_log[1].op = "open" /\ csv_log[1].value
    /\ csv_log[2].op = "log_measurement"
    /\ csv_log[3].op = "log_measurement"
    /\ csv_log[4].op = "open" /\ csv_log[4].value
    /\ Len(csv_log[4].disk) = 3
    /\ disk = <<>>
    /\ files[2].buffer = <<HeaderRow>>

(***************************************************************************)
(* C29  close() is safe in every state and idempotent: on a logger without *)
(* a file it changes nothing, a second close() changes nothing, and after  *)
(* every close() the logger holds neither file nor writer while the rows   *)
(* written before are still in the file.                                   *)
(***************************************************************************)
C29_CloseIdempotent ==
    \A n \in 1..Len(csv_log) :
        csv_log[n].op = "close" =>
            /\ FileAfter(n) = None
            /\ WriterAfter(n) = None
            /\ IsPrefix(csv_log[n].disk, DiskAfter(n))
            /\ (csv_log[n].file = None \/ (n > 1 /\ csv_log[n - 1].op = "close"))
               => /\ DiskAfter(n) = csv_log[n].disk
                  /\ FilesAfter(n) = csv_log[n].files
                  /\ csv_log[n].writer = None

C29_Witness ==
    /\ Len(csv_log) = 4
    /\ csv_log[1].op = "open" /\ csv_log[1].value
    /\ csv_log[2].op = "log_measurement"
    /\ csv_log[3].op = "close"
    /\ csv_log[4].op = "close"
    /\ csv_log[4].disk = disk
    /\ Len(disk) = 2
    /\ file = None /\ writer = None

\* the scan that find_dcs_devices() started is between two probes: one port
\* was probed and the next is about to be
BetweenProbes ==
    /\ gui_stack # <<>>
    /\ gui_stack[Len(gui_stack)].handler = "find_dcs_devices"
    /\ gui_stack[Len(gui_stack)].at = "scan"
    /\ pc = "scan_loop"
    /\ 1 < idx
    /\ idx <= Len(likely_ports)

\* C22: while the GUI runs a scan started by find_dcs_devices, the event loop
\* is not blocked for the whole scan: between two consecutive probes of the
\* scan, at the latest, pending events are processed
C22_EventsBetweenProbes == BetweenProbes => EventLoopRuns

\* C23: whenever the GUI is connected, the upper bounds of the voltage and
\* the current setpoint inputs are the maxima the connected instrument
\* reported, whatever it reported and whatever was connected before
C23_RangeIsReportedMaximum ==
    gui_power_supply # None =>
        /\ window.voltage_maximum
               = gui_drivers[the(gui_power_supply)].max_voltage
        /\ window.current_maximum
               = gui_drivers[the(gui_power_supply)].max_current

\* the readings timer and the setpoint controls are all in the state on
ControlsAre(on) ==
    /\ window.update_timer = on
    /\ window.voltage_spinbox = on
    /\ window.current_spinbox = on
    /\ window.set_voltage_button = on
    /\ window.set_current_button = on
    /\ window.disconnect_button = on

\* C30: between event handlers, the readings timer runs and the setpoint
\* controls (inputs, Set buttons, Disconnect button) are enabled exactly
\* when a driver is held
C30_ControlsFollowDriver ==
    (window # <<>> /\ gui_stack = <<>>) =>
        ControlsAre(gui_power_supply # None)

\* the step of connect_to_device() that constructs a driver
ConstructsDriver == Len(gui_drivers') = Len(gui_drivers) + 1

\* C31: when connect_to_device fails after the driver was constructed (a
\* getter raised), disconnect() is called on that driver before the
\* reference is dropped: the driver left behind is a disconnected one
C31_FailedConnectDisconnects ==
    [][(ConstructsDriver /\ gui_power_supply' = None)
          => gui_drivers'[Len(gui_drivers')].disconnected]_vars

\* the step in which find_dcs_devices() enters the scan
StartsScan ==
    /\ gui_stack # <<>>
    /\ Len(gui_stack') = Len(gui_stack)
    /\ gui_stack[Len(gui_stack)].at = "processEvents"
    /\ gui_stack'[Len(gui_stack')].at = "scan"

\* a scan that find_dcs_devices() started has not returned
ScanRuns == \E i \in 1..Len(gui_stack) : gui_stack[i].at = "scan"

\* C32: however the clicks are delivered, at the event loop or inside the
\* processEvents() calls of find_dcs_devices and connect_to_device: no scan
\* starts or runs and no driver is constructed while a driver is held, and
\* Connect and Find are disabled whenever a driver is held
C32_NothingStartsWhileHeld ==
    [][/\ (StartsScan \/ ConstructsDriver) => gui_power_supply = None
       /\ gui_power_supply' # None =>
            /\ ~ScanRuns'
            /\ ~window'.connect_button
            /\ ~window'.find_button]_vars

====================================================================
